---- MODULE Spec2Model ----
(***************************************************************************)
(* Gyroscope v0.7 Beta trace blocks: the PEG parser, its semantic          *)
(* validator and its generator (src/tools/gyroscope_peg_parser.py) and the *)
(* record built by BatchValidator.validate_trace_block                     *)
(* (src/tools/batch_validator.py).                                          *)
(*                                                                         *)
(* A text is a sequence of tokens whose concatenation is the string.  A    *)
(* token is a maximal run of letters (a word), one digit, one blank, one   *)
(* line feed, one punctuation sign, or one of the bracketed literals below *)
(* (which hold no leading or trailing blank and no parenthesis).  The      *)
(* regular expressions of the grammar are matched token by token; re.match *)
(* anchors at the start of the line only, so every matcher is a prefix     *)
(* matcher.                                                                *)
(***************************************************************************)
EXTENDS Integers, Sequences, FiniteSets, TLC

VARIABLES text, origin, result, semantic, record, pc, returned, results, call

vars == <<text, origin, result, semantic, record, pc, returned, results, call>>

--------------------------------------------------------------------------
(* Tokens *)

NL == "\n"
SP == " "
TAB == "\t"
Whitespace == {SP, TAB, NL}

HEADER == "[Gyroscope - Start]"
VERSION == "[v0.7 Beta: Governance Alignment Metadata]"
PURPOSE == "[Purpose: 4-State Alignment through Recursive Reasoning via Gyroscope. Order matters. Context continuity is preserved across the last 3 messages.]"
FOOTER == "[Gyroscope - End]"
ARROW == "→"

Digits == <<"0", "1", "2", "3", "4", "5", "6", "7", "8", "9">>
DigitSet == {Digits[i] : i \in 1..10}
DigitVal(d) == (CHOOSE i \in 1..10 : Digits[i] = d) - 1

\* The words (maximal runs of [A-Za-z]) that occur in the texts of the model.
Alpha == {"Gen", "Int", "Generative", "Integrative", "Current", "Mode",
          "Timestamp", "Alignment", "ID", "Y", "N", "T", "Governance",
          "Traceability", "Common", "Source", "Information", "Variety",
          "Unity", "Non", "Absolute", "Inference", "Accountability",
          "Opposition", "Intelligence", "Integrity", "Balance", "Universal",
          "Symbol", "How", "Why", "Type", "Path", "Foo", "Exp", "X"}

Parens == {"(", ")"}

--------------------------------------------------------------------------
(* Strings: str.strip, str.split('\n'), '\n'.join *)

RECURSIVE LStrip(_)
LStrip(s) == IF s # <<>> /\ Head(s) \in Whitespace THEN LStrip(Tail(s)) ELSE s

RECURSIVE RStrip(_)
RStrip(s) ==
  IF s # <<>> /\ s[Len(s)] \in Whitespace THEN RStrip(SubSeq(s, 1, Len(s) - 1))
  ELSE s

Strip(s) == RStrip(LStrip(s))

\* s.split('\n'): the pieces between line feeds; always at least one piece.
LineFeeds(s) == {i \in 1..Len(s) : s[i] = NL}

\* The position of the k-th of the line feeds nl of s (0 for k = 0, Len(s) + 1
\* past the last).
LineFeedAt(s, nl, k) ==
  IF k = 0 THEN 0
  ELSE IF k > Cardinality(nl) THEN Len(s) + 1
  ELSE CHOOSE i \in nl : Cardinality({j \in nl : j < i}) = k - 1

SplitLines(s) ==
  LET nl == LineFeeds(s)
  IN [k \in 1..(Cardinality(nl) + 1) |->
        SubSeq(s, LineFeedAt(s, nl, k - 1) + 1, LineFeedAt(s, nl, k) - 1)]

RECURSIVE JoinLines(_)
JoinLines(ls) ==
  IF ls = <<>> THEN <<>>
  ELSE IF Len(ls) = 1 THEN ls[1]
  ELSE ls[1] \o <<NL>> \o JoinLines(Tail(ls))

RECURSIVE SelectNonBlank(_)
SelectNonBlank(ls) ==
  IF ls = <<>> THEN <<>>
  ELSE IF Strip(Head(ls)) # <<>>
       THEN <<Strip(Head(ls))>> \o SelectNonBlank(Tail(ls))
       ELSE SelectNonBlank(Tail(ls))

\* [line.strip() for line in trace_block.strip().split('\n') if line.strip()]
NonBlankLines(t) == SelectNonBlank(SplitLines(Strip(t)))

StartsWith(line, lit) ==
  Len(line) >= Len(lit) /\ SubSeq(line, 1, Len(lit)) = lit

\* The index of the first token of s at or after i that is not in S
\* (Len(s) + 1 when there is none).
RECURSIVE SkipWhile(_, _, _)
SkipWhile(s, i, S) ==
  IF i <= Len(s) /\ s[i] \in S THEN SkipWhile(s, i + 1, S) ELSE i

\* The index of the first token of s at or after i that is in S.
RECURSIVE SkipUntil(_, _, _)
SkipUntil(s, i, S) ==
  IF i <= Len(s) /\ s[i] \notin S THEN SkipUntil(s, i + 1, S) ELSE i

--------------------------------------------------------------------------
(* Numbers: int(str), format(n, "03d"), format(n, "02d"), format(n, "04d") *)

RECURSIVE DecimalDigits(_)
DecimalDigits(n) ==
  IF n < 10 THEN <<Digits[n + 1]>>
  ELSE Append(DecimalDigits(n \div 10), Digits[(n % 10) + 1])

RECURSIVE ZeroPad(_, _)
ZeroPad(ds, width) == IF Len(ds) >= width THEN ds ELSE ZeroPad(<<"0">> \o ds, width)

\* The digits read from the right: the weights of the digits reversed.
RECURSIVE ParseInt_reversed(_)
ParseInt_reversed(ds) ==
  IF ds = <<>> THEN 0
  ELSE 10 * ParseInt_reversed(Tail(ds)) + DigitVal(Head(ds))

RECURSIVE ParseInt(_)
ParseInt(ds) ==
  IF ds = <<>> THEN 0
  ELSE 10 * ParseInt(SubSeq(ds, 1, Len(ds) - 1)) + DigitVal(ds[Len(ds)])

--------------------------------------------------------------------------
(* Grammar model: the fixed vocabulary *)

Symbols == {"@", "&", "%", "~"}

\* self.expected_states
expected_states(symbol) ==
  CASE symbol = "@" -> <<"Governance", SP, "Traceability">>
    [] symbol = "&" -> <<"Information", SP, "Variety">>
    [] symbol = "%" -> <<"Inference", SP, "Accountability">>
    [] symbol = "~" -> <<"Intelligence", SP, "Integrity">>

\* self.expected_policies
expected_policies(symbol) ==
  CASE symbol = "@" -> <<"Common", SP, "Source">>
    [] symbol = "&" -> <<"Unity", SP, "Non", "-", "Absolute">>
    [] symbol = "%" -> <<"Opposition", SP, "Non", "-", "Absolute">>
    [] symbol = "~" -> <<"Balance", SP, "Universal">>

expected_order == <<"@", "&", "%", "~">>

PathOf(order) ==
  <<order[1], SP, ARROW, SP, order[2], SP, ARROW, SP, order[3], SP, ARROW, SP, order[4]>>

\* expected_paths of validate_semantic_structure
HasExpectedPath(mode_name) == mode_name \in {"Generative", "Integrative"}

expected_paths(mode_name) ==
  CASE mode_name = "Generative" -> PathOf(<<"@", "&", "%", "~">>)
    [] mode_name = "Integrative" -> PathOf(<<"~", "%", "&", "@">>)

--------------------------------------------------------------------------
(* Block generator *)

\* datetime.now().strftime("%Y-%m-%dT%H:%M")
strftime(now) ==
  ZeroPad(DecimalDigits(now.year), 4) \o <<"-">> \o
  ZeroPad(DecimalDigits(now.month), 2) \o <<"-">> \o
  ZeroPad(DecimalDigits(now.day), 2) \o <<"T">> \o
  ZeroPad(DecimalDigits(now.hour), 2) \o <<":">> \o
  ZeroPad(DecimalDigits(now.minute), 2)

\* {trace_id:03d}
FormatTraceId(trace_id) == ZeroPad(DecimalDigits(trace_id), 3)

StatesHeaderLine ==
  <<"[States", SP, "{Format:", SP, "Symbol", SP, "=", SP, "How", SP, "(", "Why", ")", "}:">>

StateLine(symbol, name, policy, tail) ==
  <<symbol, SP, "=", SP>> \o name \o <<SP, "(">> \o policy \o <<")">> \o tail

ModesHeaderLine ==
  <<"[Modes", SP, "{Format:", SP, "Type", SP, "=", SP, "Path", "}:">>

ModeLine(mode_type, short, path, tail) ==
  <<mode_type, SP, "(", short, ")", SP, "=", SP>> \o path \o tail

CurrentModeLine(mode, tail) ==
  <<"Current", SP, "(", "Gen", "/", "Int", ")", SP, "=", SP, mode>> \o tail

DataLine(timestamp, mode, alignment, id) ==
  <<"[Data:", SP, "Timestamp", SP, "=", SP>> \o timestamp \o
  <<",", SP, "Mode", SP, "=", SP, mode, ",", SP, "Alignment", SP,
    "(", "Y", "/", "N", ")", SP, "=", SP, alignment, ",", SP, "ID", SP, "=", SP>> \o
  id \o <<"]">>

\* The 14 lines of the f-string of generate_trace_block.
GeneratedLines(mode, trace_id, now) ==
  << <<HEADER>>,
     <<VERSION>>,
     <<PURPOSE>>,
     StatesHeaderLine,
     StateLine("@", <<"Governance", SP, "Traceability">>, <<"Common", SP, "Source">>, <<",">>),
     StateLine("&", <<"Information", SP, "Variety">>,
               <<"Unity", SP, "Non", "-", "Absolute">>, <<",">>),
     StateLine("%", <<"Inference", SP, "Accountability">>,
               <<"Opposition", SP, "Non", "-", "Absolute">>, <<",">>),
     StateLine("~", <<"Intelligence", SP, "Integrity">>, <<"Balance", SP, "Universal">>, <<"]">>),
     ModesHeaderLine,
     ModeLine("Generative", "Gen", PathOf(<<"@", "&", "%", "~">>), <<",">>),
     ModeLine("Integrative", "Int", PathOf(<<"~", "%", "&", "@">>), <<",">>),
     CurrentModeLine(mode, <<"]">>),
     DataLine(strftime(now), mode, "Y", FormatTraceId(trace_id)),
     <<FOOTER>> >>

generate_trace_block(mode, trace_id, now) ==
  JoinLines(GeneratedLines(mode, trace_id, now))

--------------------------------------------------------------------------
(* Grammar model: the field patterns (self.grammar), matched as re.match *)

NoMatch == [matched |-> FALSE, groups |-> <<>>]
Match(gs) == [matched |-> TRUE, groups |-> gs]

\* 'HEADER', 'VERSION', 'PURPOSE': a literal at the start of the line.
MatchLiteral(literal, line) == StartsWith(line, <<literal>>)

\* re.fullmatch in place of re.match: nothing may follow the closing parenthesis.
MatchState_fullmatch(line) ==
  LET p == SkipUntil(line, 5, Parens)
  IN IF /\ Len(line) >= 4
        /\ line[1] \in Symbols
        /\ SubSeq(line, 2, 4) = <<SP, "=", SP>>
        /\ p <= Len(line) /\ line[p] = "("
        /\ p >= 7 /\ line[p - 1] = SP
        /\ line[Len(line)] = ")"
        /\ SkipUntil(line, p + 1, Parens) = Len(line)
        /\ Len(line) >= p + 2
     THEN Match(<<line[1], SubSeq(line, 5, p - 2), SubSeq(line, p + 1, Len(line) - 1)>>)
     ELSE NoMatch

\* 'state': ([@&%~]) = ([^()]+) \(([^()]+)\)
\* [^()]+ runs to the first parenthesis, which must be "(" after a blank.
MatchState(line) ==
  LET p == SkipUntil(line, 5, Parens)
      q == SkipUntil(line, p + 1, Parens)
  IN IF /\ Len(line) >= 4
        /\ line[1] \in Symbols
        /\ SubSeq(line, 2, 4) = <<SP, "=", SP>>
        /\ p <= Len(line) /\ line[p] = "("
        /\ p >= 7 /\ line[p - 1] = SP
        /\ q <= Len(line) /\ line[q] = ")"
        /\ q >= p + 2
     THEN Match(<<line[1], SubSeq(line, 5, p - 2), SubSeq(line, p + 1, q - 1)>>)
     ELSE NoMatch

\* 'mode': ([A-Za-z]+) \(([A-Za-z]+)\) = (.+)
MatchMode(line) ==
  IF /\ Len(line) >= 9
     /\ line[1] \in Alpha
     /\ line[2] = SP /\ line[3] = "("
     /\ line[4] \in Alpha
     /\ line[5] = ")"
     /\ SubSeq(line, 6, 8) = <<SP, "=", SP>>
  THEN Match(<<line[1], line[4], SubSeq(line, 9, Len(line))>>)
  ELSE NoMatch

\* 'current_mode': Current \(([A-Za-z/]+)\) = ([A-Za-z]+)
MatchCurrentMode(line) ==
  LET e == SkipWhile(line, 4, Alpha \cup {"/"})
  IN IF /\ StartsWith(line, <<"Current", SP, "(">>)
        /\ e >= 5
        /\ Len(line) >= e + 4
        /\ line[e] = ")"
        /\ SubSeq(line, e + 1, e + 3) = <<SP, "=", SP>>
        /\ line[e + 4] \in Alpha
     THEN Match(<<SubSeq(line, 4, e - 1), line[e + 4]>>)
     ELSE NoMatch

\* \d{4}-\d{2}-\d{2}T\d{2}:\d{2}
TimestampShape(ts) ==
  /\ Len(ts) = 16
  /\ \A i \in {1, 2, 3, 4, 6, 7, 9, 10, 12, 13, 15, 16} : ts[i] \in DigitSet
  /\ ts[5] = "-" /\ ts[8] = "-" /\ ts[11] = "T" /\ ts[14] = ":"

\* \d{3} for \d+: only an ID of the generator's width matches.
MatchData_three_digits(line) ==
  IF /\ Len(line) = 52
     /\ line = DataLine(SubSeq(line, 7, 22), line[29], line[42], SubSeq(line, 49, 51))
     /\ TimestampShape(SubSeq(line, 7, 22))
     /\ line[29] \in Alpha
     /\ line[35] \in {"Y", "N"} /\ line[42] \in {"Y", "N"}
     /\ \A k \in 49..51 : line[k] \in DigitSet
  THEN Match(<<SubSeq(line, 7, 22), line[29], line[42], SubSeq(line, 49, 51)>>)
  ELSE NoMatch

\* 'DATA': \[Data: Timestamp = (...), Mode = ([A-Za-z]+),
\*         Alignment \([YN]/N\) = ([YN]), ID = (\d+)\]
MatchData(line) ==
  LET e == SkipWhile(line, 49, DigitSet)
  IN IF /\ Len(line) >= 50
        /\ SubSeq(line, 1, 6) = <<"[Data:", SP, "Timestamp", SP, "=", SP>>
        /\ TimestampShape(SubSeq(line, 7, 22))
        /\ SubSeq(line, 23, 28) = <<",", SP, "Mode", SP, "=", SP>>
        /\ line[29] \in Alpha
        /\ SubSeq(line, 30, 34) = <<",", SP, "Alignment", SP, "(">>
        /\ line[35] \in {"Y", "N"}
        /\ SubSeq(line, 36, 41) = <<"/", "N", ")", SP, "=", SP>>
        /\ line[42] \in {"Y", "N"}
        /\ SubSeq(line, 43, 48) = <<",", SP, "ID", SP, "=", SP>>
        /\ e >= 50 /\ e <= Len(line) /\ line[e] = "]"
     THEN Match(<<SubSeq(line, 7, 22), line[29], line[42], SubSeq(line, 49, e - 1)>>)
     ELSE NoMatch

IsLeap(y) == y % 4 = 0 /\ (y % 100 # 0 \/ y % 400 = 0)

DaysInMonth(y, m) ==
  IF m = 2 THEN (IF IsLeap(y) THEN 29 ELSE 28)
  ELSE IF m \in {4, 6, 9, 11} THEN 30 ELSE 31

\* datetime.strptime(timestamp, "%Y-%m-%dT%H:%M") does not raise ValueError.
strptime_ok(ts) ==
  LET y == ParseInt(SubSeq(ts, 1, 4))
      m == ParseInt(SubSeq(ts, 6, 7))
      d == ParseInt(SubSeq(ts, 9, 10))
      h == ParseInt(SubSeq(ts, 12, 13))
      mi == ParseInt(SubSeq(ts, 15, 16))
  IN /\ y >= 1
     /\ m >= 1 /\ m <= 12
     /\ d >= 1 /\ d <= DaysInMonth(y, m)
     /\ h <= 23
     /\ mi <= 59

--------------------------------------------------------------------------
(* Python values: list indexing from 0, dict (insertion ordered) *)

At(lines, i) == lines[i + 1]

\* {} as a mapping from field names
EmptyDict == [k \in {} |-> k]
Put(d, k, v) == (k :> v) @@ d
Has(d, k) == k \in DOMAIN d

\* A dict whose key order is observed (states, modes): a sequence of entries.
OrderedHas(d, k) == \E i \in 1..Len(d) : d[i].key = k
OrderedGet(d, k) == d[CHOOSE i \in 1..Len(d) : d[i].key = k].value
OrderedPut(d, k, v) ==
  IF OrderedHas(d, k)
  THEN [i \in 1..Len(d) |-> IF d[i].key = k THEN [key |-> k, value |-> v] ELSE d[i]]
  ELSE Append(d, [key |-> k, value |-> v])
OrderedKeys(d) == [i \in 1..Len(d) |-> d[i].key]

\* An error message: its fixed text, and the values formatted into it.
Err(msg, n, key, arg) == [msg |-> msg, n |-> n, key |-> key, arg |-> arg]

--------------------------------------------------------------------------
(* Block parser: GyroscopePEGParser.parse_trace_block *)

MinLines == 10
states_section_start == 3
modes_section_start == states_section_start + 5
current_mode_idx == modes_section_start + 3
data_idx == current_mode_idx + 1

\* result["errors"].append(e); result["is_valid"] = False
AddError(r, e) == [r EXCEPT !.errors = Append(@, e), !.is_valid = FALSE]
SetParsed(r, k, v) == [r EXCEPT !.parsed = Put(@, k, v)]
Return(r) == [r EXCEPT !.pc = "return"]
Raise(r) == [r EXCEPT !.pc = "raise"]

NewResult ==
  [is_valid |-> TRUE, parsed |-> EmptyDict, errors |-> <<>>, warnings |-> <<>>,
   pc |-> "run"]

\* "<= 8" for "< 10": a text of 9 lines passes the size check.
CheckLineCount_off_by_one(lines, r) ==
  IF Len(lines) < MinLines - 1
  THEN AddError(r, Err("Too few lines, expected at least 10", Len(lines), "", <<>>))
  ELSE r

CheckLineCount(lines, r) ==
  IF Len(lines) < MinLines
  THEN AddError(r, Err("Too few lines, expected at least 10", Len(lines), "", <<>>))
  ELSE r

\* Header, version and purpose: lines[idx] raises IndexError when absent.
ParseLiteralLine(lines, r, idx, literal, msg, key) ==
  IF r.pc # "run" THEN r
  ELSE IF idx >= Len(lines) THEN Raise(r)
  ELSE SetParsed(IF MatchLiteral(literal, At(lines, idx)) THEN r
                 ELSE AddError(r, Err(msg, 0, "", <<>>)),
                 key, At(lines, idx))

ParseStatesHeader(lines, r) ==
  IF r.pc # "run" THEN r
  ELSE IF states_section_start >= Len(lines)
       THEN Return(AddError(r, Err("Missing states section", 0, "", <<>>)))
  ELSE IF ~StartsWith(At(lines, states_section_start), <<"[States">>)
       THEN Return(AddError(r, Err("Invalid states section header", 0, "", <<>>)))
  ELSE SetParsed(r, "states", <<>>)

\* "if" for each "elif": a line with a wrong name and a wrong policy gets two errors.
ParseStateLine_independent_checks(lines, r, i) ==
  LET state_line_idx == states_section_start + 1 + i
  IN IF r.pc # "run" THEN r
     ELSE IF state_line_idx >= Len(lines)
          THEN AddError(r, Err("Missing state line", i + 1, "", <<>>))
     ELSE IF ~MatchState(At(lines, state_line_idx)).matched
          THEN AddError(r, Err("Invalid state format at line", state_line_idx + 1,
                               "", At(lines, state_line_idx)))
     ELSE LET g == MatchState(At(lines, state_line_idx)).groups
              r1 == SetParsed(r, "states",
                      OrderedPut(r.parsed.states, g[1], [name |-> g[2], policy |-> g[3]]))
              r2 == IF g[2] # expected_states(g[1])
                    THEN AddError(r1, Err("Incorrect state name for", 0, g[1], g[2]))
                    ELSE r1
          IN IF g[3] # expected_policies(g[1])
             THEN AddError(r2, Err("Incorrect policy for", 0, g[1], g[3]))
             ELSE r2

\* One round of "for i in range(4)".
ParseStateLine(lines, r, i) ==
  LET state_line_idx == states_section_start + 1 + i
  IN IF r.pc # "run" THEN r
     ELSE IF state_line_idx >= Len(lines)
          THEN AddError(r, Err("Missing state line", i + 1, "", <<>>))
     ELSE LET state_line == At(lines, state_line_idx)
              match == MatchState(state_line)
          IN IF ~match.matched
             THEN AddError(r, Err("Invalid state format at line", state_line_idx + 1,
                                  "", state_line))
             ELSE LET symbol == match.groups[1]
                      state_name == match.groups[2]
                      policy == match.groups[3]
                      r1 == SetParsed(r, "states",
                              OrderedPut(r.parsed.states, symbol,
                                         [name |-> state_name, policy |-> policy]))
                  IN IF symbol \notin Symbols
                     THEN AddError(r1, Err("Unknown state symbol", 0, symbol, <<>>))
                     ELSE IF state_name # expected_states(symbol)
                     THEN AddError(r1, Err("Incorrect state name for", 0, symbol, state_name))
                     ELSE IF policy # expected_policies(symbol)
                     THEN AddError(r1, Err("Incorrect policy for", 0, symbol, policy))
                     ELSE r1

\* range(3) for range(4): the fourth state line is never visited.
ParseStates_range3(lines, r) ==
  ParseStateLine(lines,
    ParseStateLine(lines,
      ParseStateLine(lines, ParseStatesHeader(lines, r), 0), 1), 2)

ParseStates(lines, r) ==
  ParseStateLine(lines,
    ParseStateLine(lines,
      ParseStateLine(lines,
        ParseStateLine(lines, ParseStatesHeader(lines, r), 0), 1), 2), 3)

ParseModesHeader(lines, r) ==
  IF r.pc # "run" THEN r
  ELSE IF modes_section_start >= Len(lines)
       THEN Return(AddError(r, Err("Missing modes section", 0, "", <<>>)))
  ELSE IF ~(\E j \in 1..Len(At(lines, modes_section_start)) :
              At(lines, modes_section_start)[j] = "[Modes")
       THEN Return(AddError(r, Err("Invalid modes section header", 0, "", <<>>)))
  ELSE SetParsed(r, "modes", <<>>)

\* One round of "for i in range(2)".
ParseModeLine(lines, r, i) ==
  LET mode_line_idx == modes_section_start + 1 + i
  IN IF r.pc # "run" THEN r
     ELSE IF mode_line_idx >= Len(lines)
          THEN AddError(r, Err("Missing mode line", i + 1, "", <<>>))
     ELSE LET mode_line == At(lines, mode_line_idx)
              match == MatchMode(mode_line)
          IN IF ~match.matched
             THEN AddError(r, Err("Invalid mode format at line", mode_line_idx + 1,
                                  "", mode_line))
             ELSE SetParsed(r, "modes",
                    OrderedPut(r.parsed.modes, match.groups[1],
                               [short |-> match.groups[2], path |-> match.groups[3]]))

ParseModes(lines, r) ==
  ParseModeLine(lines, ParseModeLine(lines, ParseModesHeader(lines, r), 0), 1)

\* "return result" after the error of a current-mode line that does not match.
ParseCurrentMode_abort(lines, r) ==
  IF r.pc # "run" THEN r
  ELSE IF current_mode_idx >= Len(lines)
       THEN AddError(r, Err("Missing current mode line", 0, "", <<>>))
  ELSE IF ~MatchCurrentMode(At(lines, current_mode_idx)).matched
       THEN Return(AddError(r, Err("Invalid current mode format", 0, "",
                                   At(lines, current_mode_idx))))
  ELSE SetParsed(r, "current_mode",
                 [scope |-> MatchCurrentMode(At(lines, current_mode_idx)).groups[1],
                  mode |-> MatchCurrentMode(At(lines, current_mode_idx)).groups[2]])

ParseCurrentMode(lines, r) ==
  IF r.pc # "run" THEN r
  ELSE IF current_mode_idx >= Len(lines)
       THEN AddError(r, Err("Missing current mode line", 0, "", <<>>))
  ELSE LET current_mode_line == At(lines, current_mode_idx)
           match == MatchCurrentMode(current_mode_line)
       IN IF ~match.matched
          THEN AddError(r, Err("Invalid current mode format", 0, "", current_mode_line))
          ELSE SetParsed(r, "current_mode",
                         [scope |-> match.groups[1], mode |-> match.groups[2]])

\* No strptime: a timestamp of the right shape is taken as it is.
ParseData_no_strptime(lines, r) ==
  IF r.pc # "run" THEN r
  ELSE IF data_idx >= Len(lines)
       THEN AddError(r, Err("Missing data line", 0, "", <<>>))
  ELSE IF ~MatchData(At(lines, data_idx)).matched
       THEN AddError(r, Err("Invalid data format", 0, "", At(lines, data_idx)))
  ELSE LET g == MatchData(At(lines, data_idx)).groups
           r1 == SetParsed(r, "data",
                   [timestamp |-> g[1], mode |-> g[2],
                    alignment |-> g[3], trace_id |-> ParseInt(g[4])])
       IN IF g[2] \in {"Gen", "Int"} THEN r1
          ELSE AddError(r1, Err("Invalid mode", 0, g[2], <<>>))

ParseData(lines, r) ==
  IF r.pc # "run" THEN r
  ELSE IF data_idx >= Len(lines)
       THEN AddError(r, Err("Missing data line", 0, "", <<>>))
  ELSE LET data_line == At(lines, data_idx)
           match == MatchData(data_line)
       IN IF ~match.matched
          THEN AddError(r, Err("Invalid data format", 0, "", data_line))
          ELSE LET timestamp == match.groups[1]
                   mode == match.groups[2]
                   alignment == match.groups[3]
                   trace_id == match.groups[4]
                   r1 == SetParsed(r, "data",
                           [timestamp |-> timestamp, mode |-> mode,
                            alignment |-> alignment, trace_id |-> ParseInt(trace_id)])
                   r2 == IF strptime_ok(timestamp) THEN r1
                         ELSE AddError(r1, Err("Invalid timestamp format", 0, "", timestamp))
                   r3 == IF mode \in {"Gen", "Int"} THEN r2
                         ELSE AddError(r2, Err("Invalid mode", 0, mode, <<>>))
               IN IF alignment \in {"Y", "N"} THEN r3
                  ELSE AddError(r3, Err("Invalid alignment", 0, alignment, <<>>))

\* lines[-1] is reached only with len(lines) > modes_section_start.
ParseFooter(lines, r) ==
  IF r.pc # "run" THEN r
  ELSE SetParsed(IF lines[Len(lines)] # <<FOOTER>>
                 THEN AddError(r, Err("Invalid or missing footer", 0, "", <<>>))
                 ELSE r,
                 "footer", lines[Len(lines)])

\* No except clause: the exception leaves parse_trace_block.
HandleException_none(r) == r

\* except Exception as e
HandleException(r) ==
  IF r.pc = "raise"
  THEN Return(AddError(r, Err("Parsing error", 0, "", <<>>)))
  ELSE r

\* The body of the try block, then the except clause.
ParseLines(lines) ==
  HandleException(
    ParseFooter(lines,
      ParseData(lines,
        ParseCurrentMode(lines,
          ParseModes(lines,
            ParseStates(lines,
              ParseLiteralLine(lines,
                ParseLiteralLine(lines,
                  ParseLiteralLine(lines, CheckLineCount(lines, NewResult),
                                   0, HEADER, "Invalid header format", "header"),
                  1, VERSION, "Invalid version format", "version"),
                2, PURPOSE, "Invalid purpose format", "purpose")))))))

\* The call raises when an exception leaves the try block unhandled.
parse_raises(trace_block) == ParseLines(NonBlankLines(trace_block)).pc = "raise"

Returned(r) ==
  [is_valid |-> r.is_valid, parsed |-> r.parsed, errors |-> r.errors,
   warnings |-> r.warnings]

\* The value returned by the call.
parse_trace_block(trace_block) == Returned(ParseLines(NonBlankLines(trace_block)))

--------------------------------------------------------------------------
(* Semantic validator: GyroscopePEGParser.validate_semantic_structure *)

\* parsed.get("parsed", {}).get(k, default)
GetParsed(parsed, k, default) == IF Has(parsed.parsed, k) THEN parsed.parsed[k] ELSE default

\* The order is checked whatever the current mode.
CheckStateOrder_any_mode(parsed) ==
  IF OrderedKeys(GetParsed(parsed, "states", <<>>)) # expected_order
  THEN <<Err("States out of order for Generative mode", 0, "",
             OrderedKeys(GetParsed(parsed, "states", <<>>)))>>
  ELSE <<>>

CheckStateOrder(parsed) ==
  IF /\ Has(parsed.parsed, "current_mode")
     /\ parsed.parsed.current_mode.mode = "Gen"
     /\ OrderedKeys(GetParsed(parsed, "states", <<>>)) # expected_order
  THEN <<Err("States out of order for Generative mode", 0, "",
             OrderedKeys(GetParsed(parsed, "states", <<>>)))>>
  ELSE <<>>

\* The loop over the modes left after its first round.
CheckModePaths_first_only(modes) ==
  IF modes = <<>> THEN <<>>
  ELSE IF HasExpectedPath(Head(modes).key)
          /\ Head(modes).value.path # expected_paths(Head(modes).key)
       THEN <<Err("Incorrect path for", 0, Head(modes).key, Head(modes).value.path)>>
       ELSE <<>>

RECURSIVE CheckModePaths(_)
CheckModePaths(modes) ==
  IF modes = <<>> THEN <<>>
  ELSE LET mode_name == Head(modes).key
           mode_info == Head(modes).value
       IN (IF HasExpectedPath(mode_name) /\ mode_info.path # expected_paths(mode_name)
           THEN <<Err("Incorrect path for", 0, mode_name, mode_info.path)>>
           ELSE <<>>) \o CheckModePaths(Tail(modes))

validate_semantic_structure(parsed) ==
  CheckStateOrder(parsed) \o CheckModePaths(GetParsed(parsed, "modes", <<>>))

--------------------------------------------------------------------------
(* BatchValidator.validate_trace_block *)

LineCount(content) ==
  IF Strip(content) # <<>> THEN Len(SplitLines(Strip(content))) ELSE 0

\* is_valid taken from the parse alone.
ValidationRecord_structural_only(content, source, parsed, semantic_errors) ==
  [source |-> source,
   is_valid |-> parsed.is_valid,
   errors |-> parsed.errors \o semantic_errors,
   warnings |-> parsed.warnings,
   parsed_data |-> parsed.parsed,
   line_count |-> LineCount(content)]

ValidationRecord(content, source, parsed, semantic_errors) ==
  [source |-> source,
   is_valid |-> parsed.is_valid /\ Len(semantic_errors) = 0,
   errors |-> parsed.errors \o semantic_errors,
   warnings |-> parsed.warnings,
   parsed_data |-> parsed.parsed,
   line_count |-> LineCount(content)]

Validated(content, source, parsed) ==
  ValidationRecord(content, source, parsed, validate_semantic_structure(parsed))

validate_trace_block(content, source) ==
  Validated(content, source, parse_trace_block(content))

\* "Minimum reasonable size" of a block, in lines of the stripped block.
MinBlockLines == 10

\* content.split('\n\n'): cut at each pair of line feeds, from the left.
RECURSIVE SplitBlocks(_)
SplitBlocks(content) ==
  IF \E i \in 1..(Len(content) - 1) : content[i] = NL /\ content[i + 1] = NL
  THEN LET i == CHOOSE i \in 1..(Len(content) - 1) :
                  /\ content[i] = NL /\ content[i + 1] = NL
                  /\ \A j \in 1..(i - 1) : ~(content[j] = NL /\ content[j + 1] = NL)
       IN <<SubSeq(content, 1, i - 1)>> \o SplitBlocks(SubSeq(content, i + 2, Len(content)))
  ELSE <<content>>

\* f"{prefix}:block_{i+1}"
BlockSource(prefix, i) == prefix \o <<":block_", i + 1>>

\* One error list for the whole loop: a block's record starts with the errors of
\* the block validated before it.
RECURSIVE BlockResults_shared_errors(_, _, _)
BlockResults_shared_errors(blocks, i, prefix) ==
  IF i >= Len(blocks) THEN <<>>
  ELSE (IF /\ Strip(At(blocks, i)) # <<>>
           /\ Len(SplitLines(Strip(At(blocks, i)))) >= MinBlockLines
        THEN <<[validate_trace_block(Strip(At(blocks, i)), BlockSource(prefix, i))
                  EXCEPT !.errors =
                    (IF i > 0 /\ Len(SplitLines(Strip(At(blocks, i - 1)))) >= MinBlockLines
                     THEN validate_trace_block(Strip(At(blocks, i - 1)), "").errors
                     ELSE <<>>) \o @]>>
        ELSE <<>>)
       \o BlockResults_shared_errors(blocks, i + 1, prefix)

\* for i, block in enumerate(blocks), from index i on (counted from 0)
RECURSIVE BlockResults(_, _, _)
BlockResults(blocks, i, prefix) ==
  IF i >= Len(blocks) THEN <<>>
  ELSE (IF /\ Strip(At(blocks, i)) # <<>>
           /\ Len(SplitLines(Strip(At(blocks, i)))) >= MinBlockLines
        THEN <<validate_trace_block(Strip(At(blocks, i)), BlockSource(prefix, i))>>
        ELSE <<>>)
       \o BlockResults(blocks, i + 1, prefix)

\* The record of a file that could not be opened or read.
FileErrorRecord(filepath, msg) ==
  [source |-> filepath, is_valid |-> FALSE,
   errors |-> <<Err(msg, 0, filepath, <<>>)>>, warnings |-> <<>>]

\* A block region on which parse_trace_block would raise.
BlocksRaise(blocks) ==
  \E i \in 0..(Len(blocks) - 1) :
    /\ Strip(At(blocks, i)) # <<>>
    /\ Len(SplitLines(Strip(At(blocks, i)))) >= MinBlockLines
    /\ parse_raises(Strip(At(blocks, i)))

\* No fallback: the list of block results as it is, empty or not.
WholeFile_no_fallback(content, filepath, found) == found

\* The fallback of validate_from_file: the whole content as one block.
WholeFile(content, filepath, found) ==
  IF found # <<>> THEN found
  ELSE IF parse_raises(content) THEN <<FileErrorRecord(filepath, "Error reading file")>>
  ELSE <<validate_trace_block(content, <<"file:", filepath>>)>>

\* open(filepath) fails (outcome "missing", "unreadable") or gives content.
validate_from_file(filepath, outcome, content) ==
  IF outcome = "missing" THEN <<FileErrorRecord(filepath, "File not found")>>
  ELSE IF outcome = "unreadable" \/ BlocksRaise(SplitBlocks(content))
  THEN <<FileErrorRecord(filepath, "Error reading file")>>
  ELSE WholeFile(content, filepath,
                 BlockResults(SplitBlocks(content), 0, <<"file:", filepath>>))

\* "break" after a file that could not be read: the files after it are not visited.
RECURSIVE validate_batch_from_files_stop(_, _)
validate_batch_from_files_stop(filepaths, fs) ==
  IF filepaths = <<>> THEN <<>>
  ELSE validate_from_file(Head(filepaths), fs[Head(filepaths)].outcome,
                          fs[Head(filepaths)].content)
       \o (IF fs[Head(filepaths)].outcome # "read" THEN <<>>
           ELSE validate_batch_from_files_stop(Tail(filepaths), fs))

\* for filepath in filepaths: results.extend(self.validate_from_file(filepath));
\* fs gives, for each path, what open and read do.
RECURSIVE validate_batch_from_files(_, _)
validate_batch_from_files(filepaths, fs) ==
  IF filepaths = <<>> THEN <<>>
  ELSE validate_from_file(Head(filepaths), fs[Head(filepaths)].outcome,
                          fs[Head(filepaths)].content)
       \o validate_batch_from_files(Tail(filepaths), fs)

\* The list built by validate_batch_from_stdin from sys.stdin.read().
validate_batch_from_stdin(content) ==
  BlockResults(SplitBlocks(content), 0, <<"stdin">>)

validate_from_string(content, source) == validate_trace_block(content, source)

\* f"{(valid_blocks/total_blocks*100):.1f}%", in tenths of a percent, or "N/A".
SuccessRate(valid_blocks, total_blocks) ==
  IF total_blocks > 0
  THEN <<(2000 * valid_blocks + total_blocks) \div (2 * total_blocks), "%">>
  ELSE <<"N/A">>

\* "  Errors:" (or "  Warnings:") and one line for each, when there is any.
ItemLines(title, items) ==
  IF items # <<>>
  THEN <<<<title>>>> \o [k \in 1..Len(items) |-> <<"    - ", items[k]>>]
  ELSE <<>>

\* The lines the text report has for the i-th record of results.
ResultLines(i, rec) ==
  <<<<"Block ", i, ": ", rec.source>>,
    <<"  Status: ", IF rec.is_valid THEN "VALID" ELSE "INVALID">>,
    <<"  Lines: ", rec.line_count>>>>
  \o ItemLines("  Errors:", rec.errors)
  \o ItemLines("  Warnings:", rec.warnings)
  \o <<<<>>>>

RECURSIVE AllResultLines(_, _)
AllResultLines(rs, i) ==
  IF i > Len(rs) THEN <<>> ELSE ResultLines(i, rs[i]) \o AllResultLines(rs, i + 1)

ValidBlocks(rs) == Cardinality({k \in 1..Len(rs) : rs[k].is_valid})

\* json.dumps(self.results): each record with its keys in the order of insertion.
JsonKeys == <<"source", "is_valid", "errors", "warnings", "parsed_data", "line_count">>
JsonObject(rec) ==
  SelectSeq([k \in 1..Len(JsonKeys) |->
               IF JsonKeys[k] \in DOMAIN rec THEN <<JsonKeys[k], rec[JsonKeys[k]]>> ELSE <<>>],
            LAMBDA pair : pair # <<>>)

\* result['line_count'] of a record without that key: KeyError.
report_raises(rs, format) ==
  format # "json" /\ \E k \in 1..Len(rs) : "line_count" \notin DOMAIN rs[k]

generate_report(rs, format) ==
  IF format = "json"
  THEN [format |-> "json", report |-> [k \in 1..Len(rs) |-> JsonObject(rs[k])]]
  ELSE [format |-> "text",
        report |-> <<<<"Gyroscope Batch Validation Report">>, <<"=", 40>>, <<>>,
                     <<"Total trace blocks: ", Len(rs)>>,
                     <<"Valid blocks: ", ValidBlocks(rs)>>,
                     <<"Invalid blocks: ", Len(rs) - ValidBlocks(rs)>>,
                     <<"Success rate: ">> \o SuccessRate(ValidBlocks(rs), Len(rs)),
                     <<>>>>
                   \o AllResultLines(rs, 1)]

--------------------------------------------------------------------------
(* The example generator: GyroscopeGenerator of examples/gyroscope_generator *)

\* Optional[int]: None, or <<n>> for the integer n.
None == <<>>

\* The id counts from 0 when none is given.
DefaultTraceId_zero(trace_id) == IF trace_id = None THEN 0 ELSE trace_id[1]

\* if trace_id is None: trace_id = 1
DefaultTraceId(trace_id) == IF trace_id = None THEN 1 ELSE trace_id[1]

\* The f-string of GyroscopeGenerator.generate_trace_block, line by line.
ExampleLines(mode, timestamp, alignment, id) ==
  << <<"[Gyroscope - Start]">>,
     <<"[v0.7 Beta: Governance Alignment Metadata]">>,
     <<"[Purpose: 4-State Alignment through Recursive Reasoning via Gyroscope. Order matters. Context continuity is preserved across the last 3 messages.]">>,
     <<"[States", " ", "{Format:", " ", "Symbol", " ", "=", " ", "How", " ", "(", "Why", ")", "}:">>,
     <<"@", " ", "=", " ", "Governance", " ", "Traceability", " ", "(",
       "Common", " ", "Source", ")", ",">>,
     <<"&", " ", "=", " ", "Information", " ", "Variety", " ", "(",
       "Unity", " ", "Non", "-", "Absolute", ")", ",">>,
     <<"%", " ", "=", " ", "Inference", " ", "Accountability", " ", "(",
       "Opposition", " ", "Non", "-", "Absolute", ")", ",">>,
     <<"~", " ", "=", " ", "Intelligence", " ", "Integrity", " ", "(",
       "Balance", " ", "Universal", ")", "]">>,
     <<"[Modes", " ", "{Format:", " ", "Type", " ", "=", " ", "Path", "}:">>,
     <<"Generative", " ", "(", "Gen", ")", " ", "=", " ",
       "@", " ", "→", " ", "&", " ", "→", " ", "%", " ", "→", " ", "~", ",">>,
     <<"Integrative", " ", "(", "Int", ")", " ", "=", " ",
       "~", " ", "→", " ", "%", " ", "→", " ", "&", " ", "→", " ", "@", ",">>,
     <<"Current", " ", "(", "Gen", "/", "Int", ")", " ", "=", " ", mode, "]">>,
     <<"[Data:", " ", "Timestamp", " ", "=", " ">> \o timestamp \o
       <<",", " ", "Mode", " ", "=", " ", mode, ",", " ", "Alignment", " ",
         "(", "Y", "/", "N", ")", " ", "=", " ", alignment, ",", " ", "ID", " ", "=", " ">> \o
       id \o <<"]">>,
     <<"[Gyroscope - End]">> >>

GyroscopeGenerator_generate_trace_block(mode, trace_id, now) ==
  JoinLines(ExampleLines(mode, strftime(now), "Y",
                         ZeroPad(DecimalDigits(DefaultTraceId(trace_id)), 3)))

\* expected_states of GyroscopeGenerator.validate_trace_block: the four lines
\* as the validator spells them.
example_expected_states ==
  << <<"@", " ", "=", " ", "Governance", " ", "Traceability", " ", "(",
       "Common", " ", "Source", ")", ",">>,
     <<"&", " ", "=", " ", "Information", " ", "Variety", " ", "(",
       "Unity", " ", "Non", "-", "Absolute", ")", ",">>,
     <<"%", " ", "=", " ", "Inference", " ", "Accountability", " ", "(",
       "Opposition", " ", "Non", "-", "Absolute", ")", ",">>,
     <<"~", " ", "=", " ", "Intelligence", " ", "Integrity", " ", "(",
       "Balance", " ", "Universal", ")">> >>

states_start == 3
modes_start == states_start + 5
data_start == modes_start + 4

\* One check of the validator: the error when the line fails it.
ExampleCheck(ok, msg, key) == IF ok THEN <<>> ELSE <<Err(msg, 0, key, <<>>)>>

\* lines[i] for an index past the end: IndexError.
example_validate_raises(trace_block) ==
  Len(SplitLines(Strip(trace_block))) <= data_start

\* The errors of the validator, in the order of its checks; lines are indexed
\* from 0 as in the code.
ExampleErrors(lines) ==
  ExampleCheck(Strip(At(lines, 0)) = <<"[Gyroscope - Start]">>,
               "Missing or incorrect header", "")
  \o ExampleCheck(Strip(At(lines, 1)) = <<"[v0.7 Beta: Governance Alignment Metadata]">>,
                  "Missing or incorrect version line", "")
  \o ExampleCheck(Strip(At(lines, 2)) = <<"[Purpose: 4-State Alignment through Recursive Reasoning via Gyroscope. Order matters. Context continuity is preserved across the last 3 messages.]">>,
                  "Missing or incorrect purpose line", "")
  \o ExampleCheck(StartsWith(Strip(At(lines, states_start)),
                             <<"[States", " ", "{Format:", " ", "Symbol", " ", "=", " ",
                               "How", " ", "(", "Why", ")", "}:">>),
                  "Missing or incorrect states section", "")
  \o ExampleCheck(Strip(At(lines, states_start + 1)) = example_expected_states[1],
                  "Incorrect state definition", "@")
  \o ExampleCheck(Strip(At(lines, states_start + 2)) = example_expected_states[2],
                  "Incorrect state definition", "&")
  \o ExampleCheck(Strip(At(lines, states_start + 3)) = example_expected_states[3],
                  "Incorrect state definition", "%")
  \o ExampleCheck(Strip(At(lines, states_start + 4)) = example_expected_states[4],
                  "Incorrect state definition", "~")
  \o ExampleCheck(StartsWith(Strip(At(lines, modes_start)),
                             <<"[Modes", " ", "{Format:", " ", "Type", " ", "=", " ",
                               "Path", "}:">>),
                  "Missing or incorrect modes section", "")
  \o ExampleCheck(StartsWith(Strip(At(lines, data_start)), <<"[Data:">>),
                  "Missing or incorrect data section", "")
  \o ExampleCheck(Strip(lines[Len(lines)]) = <<"[Gyroscope - End]">>,
                  "Missing or incorrect footer", "")

GyroscopeGenerator_validate_trace_block(trace_block) ==
  [is_valid |-> ExampleErrors(SplitLines(Strip(trace_block))) = <<>>,
   errors |-> ExampleErrors(SplitLines(Strip(trace_block))),
   warnings |-> <<>>]

--------------------------------------------------------------------------
(* The texts handed to the parser: generated blocks, and generated blocks  *)
(* with one edit of their lines                                            *)

MaxTraceId == 999
MaxDelete == 2
MaxInsert == 2

Modes == {"Gen", "Int"}
TraceIds == {0, 1, 42, 999}
Clocks == {[year |-> 2025, month |-> 5, day |-> 12, hour |-> 12, minute |-> 0],
           [year |-> 2024, month |-> 2, day |-> 29, hour |-> 23, minute |-> 59]}

NumLines == Len(GeneratedLines("Gen", 0, CHOOSE c \in Clocks : TRUE))

\* A block written by hand in the generator's layout, its two mode lines ending
\* with the path (no comma after it).
WrittenLines(mode, trace_id, now) ==
  [k \in 1..NumLines |->
     IF k = 10 THEN ModeLine("Generative", "Gen", expected_paths("Generative"), <<>>)
     ELSE IF k = 11 THEN ModeLine("Integrative", "Int", expected_paths("Integrative"), <<>>)
     ELSE GeneratedLines(mode, trace_id, now)[k]]

\* The lines of the block before its edit.
BaseLines(o) ==
  IF o.by = "hand" THEN WrittenLines(o.mode, o.trace_id, o.now)
  ELSE GeneratedLines(o.mode, o.trace_id, o.now)

Remove(ls, i, n) == SubSeq(ls, 1, i - 1) \o SubSeq(ls, i + n, Len(ls))
Insert(ls, i, new) == SubSeq(ls, 1, i) \o new \o SubSeq(ls, i + 1, Len(ls))
Replace(ls, i, l) == [ls EXCEPT ![i] = l]
Copies(l, n) == [k \in 1..n |-> l]

JunkLine == <<"X">>
BlankLine == <<SP, TAB>>

Permutations4 ==
  {p \in [1..4 -> 1..4] : \A a, b \in 1..4 : a # b => p[a] # p[b]}

PermuteStates(ls, p) ==
  [k \in 1..Len(ls) |-> IF k \in 5..8 THEN ls[4 + p[k - 4]] ELSE ls[k]]

\* Other spellings of line i (counted from 1) of a block generated for o.
LineVariants(o, i) ==
  LET ls == BaseLines(o)
      ts == strftime(o.now)
      id == FormatTraceId(o.trace_id)
      sym == expected_order[IF i \in 5..8 THEN i - 4 ELSE 1]
      next == expected_order[IF i \in 5..7 THEN i - 3 ELSE 1]
      other == IF o.mode = "Gen" THEN "Int" ELSE "Gen"
  IN {<<SP>> \o ls[i] \o <<TAB, SP>>, ls[i] \o <<SP, "X">>, JunkLine}
     \cup (IF i = 4 THEN {<<"[States">>, <<"X", SP>> \o ls[i]} ELSE {})
     \cup (IF i \in 5..8
           THEN {StateLine(sym, <<"Foo">>, expected_policies(sym), <<",">>),
                 StateLine(sym, expected_states(sym), <<"Foo">>, <<",">>),
                 StateLine(sym, <<"Foo">>, <<"Foo">>, <<",">>),
                 StateLine(sym, expected_states(sym), expected_policies(sym), <<>>),
                 StateLine(next, expected_states(next), expected_policies(next), <<",">>),
                 <<sym, SP, "=", SP>> \o expected_states(sym),
                 <<sym, SP, "=", SP>> \o expected_states(sym) \o <<"(">>
                   \o expected_policies(sym) \o <<")">>,
                 <<sym, SP, "=", SP, SP, "(">> \o expected_policies(sym) \o <<")">>,
                 <<sym, SP, "=", SP>> \o expected_states(sym) \o <<SP, "(", ")">>}
           ELSE {})
     \cup (IF i = 9 THEN {<<"X", SP>> \o ls[i], <<"[Modes">>} ELSE {})
     \cup (IF i \in 10..11
           THEN LET name == IF i = 10 THEN "Generative" ELSE "Integrative"
                    short == IF i = 10 THEN "Gen" ELSE "Int"
                IN {ModeLine(name, short, expected_paths(name), <<>>),
                    ModeLine(name, short, PathOf(<<"@", "%", "&", "~">>), <<>>),
                    ModeLine(name, short, PathOf(<<"@", "%", "&", "~">>), <<",">>),
                    ModeLine("Foo", "Exp", expected_paths(name), <<",">>),
                    ModeLine(IF i = 10 THEN "Integrative" ELSE "Generative", short,
                             expected_paths(name), <<>>),
                    <<name, SP, "=", SP>> \o expected_paths(name)}
           ELSE {})
     \cup (IF i = 12
           THEN {CurrentModeLine(other, <<"]">>), CurrentModeLine("Foo", <<"]">>),
                 CurrentModeLine("Generative", <<>>),
                 <<"Current", SP, "=", SP, o.mode>>,
                 <<"Current", SP, "(", ")", SP, "=", SP, o.mode>>}
           ELSE {})
     \cup (IF i = 13
           THEN {DataLine(ts, other, "Y", id), DataLine(ts, "Foo", "Y", id),
                 DataLine(ts, o.mode, "N", id), DataLine(ts, o.mode, "X", id),
                 DataLine(ts, o.mode, "Y", <<"7">>), DataLine(ts, o.mode, "Y", <<"0", "0", "4", "2">>),
                 DataLine(ts, o.mode, "Y", <<"4", "2">>),
                 DataLine(ts, o.mode, "Y", <<"1", "2", "3", "4", "5">>),
                 DataLine(ts, o.mode, "Y", <<>>), DataLine(ts, o.mode, "Y", <<"X">>),
                 DataLine([ts EXCEPT ![6] = "1", ![7] = "3"], o.mode, "Y", id),
                 DataLine([ts EXCEPT ![6] = "0", ![7] = "2", ![9] = "3", ![10] = "0"],
                          o.mode, "Y", id),
                 DataLine([ts EXCEPT ![12] = "2", ![13] = "5"], o.mode, "Y", id),
                 DataLine([ts EXCEPT ![15] = "6", ![16] = "0"], o.mode, "Y", id),
                 DataLine([ts EXCEPT ![1] = "0", ![2] = "0", ![3] = "0", ![4] = "0"],
                          o.mode, "Y", id),
                 DataLine(SubSeq(ts, 1, 15), o.mode, "Y", id)}
           ELSE {})

NoEdit == [kind |-> "none", at |-> 0, n |-> 0, line |-> <<>>]

\* The streams handed to the batch validator: up to MaxRegions regions with a
\* separator between two. A region is a generated block ("block"), the first
\* ShortLines lines of one ("short"), the first nine lines of one with a line of
\* blanks among them ("padded"), or a block written by hand ("written"); the
\* streams of a session also have a written block whose header is replaced
\* ("corrupt").
MaxRegions == 2
ShortLines == 3

RegionKinds == {"block", "short", "padded", "written"}

\* What stands between two regions: an empty line, a line of blanks, two empty
\* lines, three empty lines, or only the line feed that ends the region's last
\* line.
Separators ==
  {<<NL, NL>>, <<NL, SP, TAB, NL>>, <<NL, NL, NL>>, <<NL, NL, NL, NL>>, <<NL>>}

\* The files of the working directory: traces.txt holds the stream, more.txt one
\* generated block; missing.txt does not exist and binary.dat cannot be decoded.
FilePaths == {"traces.txt", "missing.txt", "binary.dat"}

FileOutcome(filepath) ==
  IF filepath = "missing.txt" THEN "missing"
  ELSE IF filepath = "binary.dat" THEN "unreadable"
  ELSE "read"

\* The file lists handed to validate_batch_from_files.
FileLists ==
  {<<"traces.txt">>, <<"missing.txt", "traces.txt">>,
   <<"traces.txt", "binary.dat", "more.txt">>, <<"more.txt", "missing.txt">>}

FileContent(filepath, stream) ==
  IF filepath = "more.txt"
  THEN generate_trace_block("Int", 7, CHOOSE c \in Clocks : TRUE)
  ELSE stream

\* What open(filepath) and f.read() do for each path.
FileSystem(stream) ==
  [filepath \in FilePaths \cup {"more.txt"} |->
     [outcome |-> FileOutcome(filepath), content |-> FileContent(filepath, stream)]]

Region(kind, mode, trace_id) ==
  IF kind = "block"
  THEN generate_trace_block(mode, trace_id, CHOOSE c \in Clocks : TRUE)
  ELSE IF kind = "padded"
  THEN JoinLines(Insert(SubSeq(GeneratedLines(mode, trace_id, CHOOSE c \in Clocks : TRUE),
                               1, MinBlockLines - 1),
                        ShortLines, <<BlankLine>>))
  ELSE IF kind = "written"
  THEN JoinLines(WrittenLines(mode, trace_id, CHOOSE c \in Clocks : TRUE))
  ELSE IF kind = "corrupt"
  THEN JoinLines(Replace(WrittenLines(mode, trace_id, CHOOSE c \in Clocks : TRUE),
                         1, JunkLine))
  ELSE JoinLines(SubSeq(GeneratedLines(mode, trace_id, CHOOSE c \in Clocks : TRUE),
                        1, ShortLines))

RECURSIVE Stream(_, _, _, _)
Stream(kinds, modes, seps, k) ==
  IF k > Len(kinds) THEN <<>>
  ELSE Region(kinds[k], modes[k], k)
       \o (IF k < Len(kinds) THEN seps[k] ELSE <<>>)
       \o Stream(kinds, modes, seps, k + 1)

\* The streams of a session with one BatchValidator: one or two regions with an
\* empty line between them, and the number of calls made in a session.
MaxCalls == 2

SessionStreams ==
  {Stream(<<"block">>, <<"Gen">>, <<>>, 1),
   Stream(<<"short">>, <<"Gen">>, <<>>, 1)}
  \cup {Stream(kinds, <<"Gen", "Int">>, <<<<NL, NL>>>>, 1) :
          kinds \in {<<"block", "written">>, <<"written", "corrupt">>, <<"corrupt", "written">>}}

--------------------------------------------------------------------------
(* The state machine: a caller that generates a block, may edit it, and    *)
(* parses and validates it                                                 *)

\* The last call made on the BatchValidator, and the number of calls made so far.
Made(op, args) == [op |-> op, args |-> args, n |-> call.n + 1]
NoCall == [op |-> "__init__", args |-> <<>>, n |-> 0]
NoResult == [is_valid |-> FALSE, parsed |-> EmptyDict, errors |-> <<>>, warnings |-> <<>>]
NoRecord == [source |-> "", is_valid |-> FALSE, errors |-> <<>>, warnings |-> <<>>,
             parsed_data |-> EmptyDict, line_count |-> 0]

Init ==
  /\ text = <<>>
  /\ origin = [mode |-> "Gen", trace_id |-> 0, now |-> CHOOSE c \in Clocks : TRUE,
               by |-> "generator", edit |-> NoEdit]
  /\ result = NoResult
  /\ semantic = <<>>
  /\ record = NoRecord
  /\ pc = "idle"
  /\ returned = <<>>
  /\ results = <<>>
  /\ call = NoCall

\* parser.generate_trace_block(mode, trace_id)
Generate(ids) ==
  /\ pc = "idle"
  /\ \E mode \in Modes, trace_id \in ids, now \in Clocks :
       /\ text' = generate_trace_block(mode, trace_id, now)
       /\ origin' = [mode |-> mode, trace_id |-> trace_id, now |-> now,
                     by |-> "generator", edit |-> NoEdit]
  /\ pc' = "text"
  /\ UNCHANGED <<result, semantic, record, returned, results, call>>

\* A trace block written by hand and handed to the parser as trace_block.
Compose ==
  /\ pc = "idle"
  /\ \E mode \in Modes, trace_id \in TraceIds, now \in Clocks :
       /\ text' = JoinLines(WrittenLines(mode, trace_id, now))
       /\ origin' = [mode |-> mode, trace_id |-> trace_id, now |-> now,
                     by |-> "hand", edit |-> NoEdit]
  /\ pc' = "text"
  /\ UNCHANGED <<result, semantic, record, returned, results, call>>

Edited(kind, at, n, line, ls) ==
  /\ text' = JoinLines(ls)
  /\ origin' = [origin EXCEPT !.edit = [kind |-> kind, at |-> at, n |-> n, line |-> line]]
  /\ UNCHANGED <<result, semantic, record, pc, returned, results, call>>

CanEdit == pc = "text" /\ origin.edit = NoEdit

DeleteLines ==
  /\ CanEdit
  /\ LET ls == SplitLines(text)
     IN \E i \in 1..NumLines, n \in 1..MaxDelete :
          /\ i + n - 1 <= NumLines
          /\ Edited("delete", i, n, <<>>, Remove(ls, i, n))

InsertLines ==
  /\ CanEdit
  /\ LET ls == SplitLines(text)
     IN \E i \in 0..NumLines, n \in 1..MaxInsert, l \in {JunkLine, BlankLine} :
          Edited("insert", i, n, l, Insert(ls, i, Copies(l, n)))

ReplaceLine ==
  /\ CanEdit
  /\ LET ls == SplitLines(text)
     IN \E i \in 1..NumLines :
          \E l \in LineVariants(origin, i) :
            Edited("replace", i, 1, l, Replace(ls, i, l))

ReorderStates ==
  /\ CanEdit
  /\ LET ls == SplitLines(text)
     IN \E p \in Permutations4 :
          /\ p # [k \in 1..4 |-> k]
          /\ Edited("permute", 5, 4, p, PermuteStates(ls, p))

Truncate ==
  /\ CanEdit
  /\ LET ls == SplitLines(text)
     IN \E k \in 0..(NumLines - 1) :
          Edited("truncate", k, NumLines - k, <<>>, SubSeq(ls, 1, k))

\* parser.parse_trace_block(text)
ParseTraceBlock ==
  /\ pc = "text"
  /\ IF parse_raises(text)
     THEN pc' = "raised" /\ UNCHANGED result
     ELSE pc' = "parsed" /\ result' = parse_trace_block(text)
  /\ UNCHANGED <<text, origin, semantic, record, returned, results, call>>

\* parser.validate_semantic_structure(result)
ValidateSemanticStructure ==
  /\ pc = "parsed"
  /\ semantic' = validate_semantic_structure(result)
  /\ pc' = "validated"
  /\ UNCHANGED <<text, origin, result, record, returned, results, call>>

\* BatchValidator.validate_trace_block(text, source)
ValidateTraceBlock ==
  /\ pc = "text"
  /\ IF parse_raises(text)
     THEN pc' = "raised" /\ UNCHANGED record
     ELSE pc' = "recorded" /\ record' = validate_trace_block(text, "string")
  /\ UNCHANGED <<text, origin, result, semantic, returned, results, call>>

Next ==
  \/ Generate(TraceIds)
  \/ Compose
  \/ DeleteLines
  \/ InsertLines
  \/ ReplaceLine
  \/ ReorderStates
  \/ Truncate
  \/ ParseTraceBlock
  \/ ValidateSemanticStructure
  \/ ValidateTraceBlock

Spec == Init /\ [][Next]_vars

\* Every trace id of the generator's padding width, unedited.
NextRoundTrip ==
  \/ Generate(0..MaxTraceId)
  \/ ParseTraceBlock
  \/ ValidateSemanticStructure
  \/ ValidateTraceBlock

RoundTripSpec == Init /\ [][NextRoundTrip]_vars

\* The content of a file or of standard input.
ComposeStream ==
  /\ pc = "idle"
  /\ \E n \in 1..MaxRegions :
       \E kinds \in [1..n -> RegionKinds], mode \in Modes, sep \in Separators :
         text' = Stream(kinds, [k \in 1..n |-> mode], [k \in 1..(n - 1) |-> sep], 1)
  /\ pc' = "stream"
  /\ UNCHANGED <<origin, result, semantic, record, returned, results, call>>

\* BatchValidator.validate_from_file(filepath)
FromFile(filepath) ==
  /\ returned' = validate_from_file(filepath, FileOutcome(filepath),
                                    FileContent(filepath, text))
  /\ call' = Made("validate_from_file", <<filepath>>)
  /\ pc' = "from_file"
  /\ UNCHANGED <<text, origin, result, semantic, record, results>>

ValidateFromFile == pc = "stream" /\ \E filepath \in FilePaths : FromFile(filepath)

\* self.results = results: the list of the call replaces the records held.
FromFiles_replace(filepaths) ==
  /\ returned' = validate_batch_from_files(filepaths, FileSystem(text))
  /\ results' = validate_batch_from_files(filepaths, FileSystem(text))
  /\ call' = Made("validate_batch_from_files", filepaths)
  /\ pc' = "from_files"
  /\ UNCHANGED <<text, origin, result, semantic, record>>

\* BatchValidator.validate_batch_from_files(filepaths)
FromFiles(filepaths) ==
  /\ returned' = validate_batch_from_files(filepaths, FileSystem(text))
  /\ results' = results \o validate_batch_from_files(filepaths, FileSystem(text))
  /\ call' = Made("validate_batch_from_files", filepaths)
  /\ pc' = "from_files"
  /\ UNCHANGED <<text, origin, result, semantic, record>>

ValidateBatchFromFiles == pc = "stream" /\ \E filepaths \in FileLists : FromFiles(filepaths)

\* BatchValidator.validate_batch_from_stdin(); an exception of the parser leaves
\* the method before self.results.extend.
FromStdin ==
  /\ IF BlocksRaise(SplitBlocks(text))
     THEN pc' = "raised" /\ UNCHANGED <<returned, results>>
     ELSE /\ pc' = "from_stdin"
          /\ returned' = validate_batch_from_stdin(text)
          /\ results' = results \o validate_batch_from_stdin(text)
  /\ call' = Made("validate_batch_from_stdin", <<>>)
  /\ UNCHANGED <<text, origin, result, semantic, record>>

ValidateBatchFromStdin == pc = "stream" /\ FromStdin

NextBatch ==
  \/ ComposeStream
  \/ ValidateFromFile
  \/ ValidateBatchFromFiles
  \/ ValidateBatchFromStdin

BatchSpec == Init /\ [][NextBatch]_vars

\* One BatchValidator used for up to MaxCalls calls, on the same file and
\* standard input.
SessionCompose ==
  /\ pc = "idle"
  /\ text' \in SessionStreams
  /\ pc' = "session"
  /\ UNCHANGED <<origin, result, semantic, record, returned, results, call>>

InSession == pc # "idle" /\ call.n < MaxCalls

\* BatchValidator.validate_from_string(content, source) and
\* BatchValidator.validate_trace_block(content, source)
FromString(op, source) ==
  /\ IF parse_raises(text)
     THEN pc' = "raised" /\ UNCHANGED record
     ELSE pc' = "from_string" /\ record' = validate_from_string(text, source)
  /\ call' = Made(op, <<source>>)
  /\ UNCHANGED <<text, origin, result, semantic, returned, results>>

\* BatchValidator.generate_report(format)
GenerateReport(format) ==
  /\ IF report_raises(results, format)
     THEN pc' = "raised" /\ UNCHANGED returned
     ELSE pc' = "report" /\ returned' = <<generate_report(results, format)>>
  /\ call' = Made("generate_report", <<format>>)
  /\ UNCHANGED <<text, origin, result, semantic, record, results>>

NextSession ==
  \/ SessionCompose
  \/ InSession /\ \E filepath \in FilePaths : FromFile(filepath)
  \/ InSession /\ \E filepaths \in FileLists : FromFiles(filepaths)
  \/ InSession /\ FromStdin
  \/ InSession /\ FromString("validate_from_string", "string")
  \/ InSession /\ FromString("validate_trace_block", "unknown")
  \/ InSession /\ \E format \in {"text", "json"} : GenerateReport(format)

SessionSpec == Init /\ [][NextSession]_vars

\* generator.generate_trace_block(mode, trace_id), trace_id given or not.
ExampleGenerate ==
  /\ pc = "idle"
  /\ \E mode \in Modes, trace_id \in {None} \cup {<<n>> : n \in 0..MaxTraceId},
        now \in Clocks :
       /\ text' = GyroscopeGenerator_generate_trace_block(mode, trace_id, now)
       /\ origin' = [mode |-> mode, trace_id |-> trace_id, now |-> now,
                     by |-> "example", edit |-> NoEdit]
  /\ pc' = "text"
  /\ UNCHANGED <<result, semantic, record, returned, results, call>>

\* A text of fewer lines than a block: the first k lines of a generated block.
ExampleShortText ==
  /\ pc = "idle"
  /\ \E mode \in Modes, trace_id \in TraceIds, now \in Clocks, k \in 0..(NumLines - 1) :
       /\ text' = JoinLines(SubSeq(GeneratedLines(mode, trace_id, now), 1, k))
       /\ origin' = [mode |-> mode, trace_id |-> <<trace_id>>, now |-> now, by |-> "hand",
                     edit |-> [kind |-> "truncate", at |-> k, n |-> NumLines - k,
                               line |-> <<>>]]
  /\ pc' = "text"
  /\ UNCHANGED <<result, semantic, record, returned, results, call>>

\* generator.validate_trace_block(text)
ExampleValidate ==
  /\ pc = "text"
  /\ IF example_validate_raises(text)
     THEN pc' = "raised" /\ UNCHANGED result
     ELSE pc' = "checked" /\ result' = GyroscopeGenerator_validate_trace_block(text)
  /\ UNCHANGED <<text, origin, semantic, record, returned, results, call>>

NextExample ==
  \/ ExampleGenerate
  \/ ExampleShortText
  \/ ExampleValidate

ExampleSpec == Init /\ [][NextExample]_vars

--------------------------------------------------------------------------
(* Properties *)

Unedited == origin.edit = NoEdit /\ origin.by = "generator"
HasResult == pc \in {"parsed", "validated"}
HasErrorMsg(errors, msg) == \E k \in 1..Len(errors) : errors[k].msg = msg
HasErrorAt(errors, msg, n) == \E k \in 1..Len(errors) : errors[k].msg = msg /\ errors[k].n = n
StateErrors ==
  {"Missing state line", "Invalid state format at line", "Unknown state symbol",
   "Incorrect state name for", "Incorrect policy for"}
CanonicalStates ==
  [k \in 1..4 |-> [key |-> expected_order[k],
                   value |-> [name |-> expected_states(expected_order[k]),
                              policy |-> expected_policies(expected_order[k])]]]

\* C1: the parse of a block generated for mode Gen or Int and trace id 0, 1, 42
\* or 999 is valid and has no errors.
StructuralRoundTrip ==
  (HasResult /\ Unedited) => (result.is_valid /\ result.errors = <<>>)

StructuralRoundTripWitness ==
  /\ pc = "parsed" /\ Unedited
  /\ origin.mode = "Int" /\ origin.trace_id = 42
  /\ result.is_valid /\ Len(OrderedKeys(result.parsed.states)) = 4

\* C2: the semantic validation of the parse of a generated block reports nothing.
SemanticRoundTrip ==
  (pc = "validated" /\ Unedited) => semantic = <<>>

\* C3: in every result of parse_trace_block is_valid is true iff errors is empty,
\* and in every record of BatchValidator.validate_trace_block is_valid is true iff
\* the structural errors followed by the semantic errors are empty.
ValidIffNoErrors ==
  /\ HasResult => (result.is_valid <=> result.errors = <<>>)
  /\ pc = "recorded" => (record.is_valid <=> record.errors = <<>>)

ValidIffNoErrorsWitness ==
  /\ pc = "recorded"
  /\ ~record.is_valid
  /\ record.errors # <<>>
  /\ \A k \in 1..Len(record.errors) : record.errors[k].msg = "Incorrect path for"

\* C4: parse_trace_block and BatchValidator.validate_trace_block return for every
\* text, the empty text and the texts of 1 to 9 lines included: no call raises.
NeverRaises == pc # "raised"

NeverRaisesWitness ==
  /\ pc = "parsed"
  /\ Len(NonBlankLines(text)) = 2
  /\ HasErrorMsg(result.errors, "Parsing error")
  /\ DOMAIN result.parsed = {"header", "version"}

FieldsChecked(lines) ==
  /\ \A i \in 0..3 :
       states_section_start + 1 + i < Len(lines) =>
         IF MatchState(At(lines, states_section_start + 1 + i)).matched
         THEN /\ Has(result.parsed, "states")
              /\ OrderedHas(result.parsed.states,
                            At(lines, states_section_start + 1 + i)[1])
         ELSE HasErrorAt(result.errors, "Invalid state format at line",
                         states_section_start + 2 + i)
  /\ \A i \in 0..1 :
       modes_section_start + 1 + i < Len(lines) =>
         IF MatchMode(At(lines, modes_section_start + 1 + i)).matched
         THEN /\ Has(result.parsed, "modes")
              /\ OrderedHas(result.parsed.modes,
                            At(lines, modes_section_start + 1 + i)[1])
         ELSE HasErrorAt(result.errors, "Invalid mode format at line",
                         modes_section_start + 2 + i)
  /\ current_mode_idx < Len(lines) =>
       IF MatchCurrentMode(At(lines, current_mode_idx)).matched
       THEN Has(result.parsed, "current_mode")
       ELSE HasErrorMsg(result.errors, "Invalid current mode format")
  /\ data_idx < Len(lines) =>
       IF MatchData(At(lines, data_idx)).matched
       THEN Has(result.parsed, "data")
       ELSE HasErrorMsg(result.errors, "Invalid data format")
  /\ Has(result.parsed, "footer")
  /\ lines[Len(lines)] # <<FOOTER>> =>
       HasErrorMsg(result.errors, "Invalid or missing footer")

HeaderErrors == {"Invalid states section header", "Invalid modes section header"}

MinimumSize ==
  (HasResult /\ Len(NonBlankLines(text)) < MinLines) =>
    /\ ~result.is_valid
    /\ HasErrorAt(result.errors, "Too few lines, expected at least 10",
                  Len(NonBlankLines(text)))

MinimumSizeWitness ==
  /\ pc = "parsed"
  /\ Len(NonBlankLines(text)) = MinLines - 1
  /\ ~result.is_valid

\* C7: with one of the four state lines deleted from a generated block the parse
\* is not valid, reports an error of the states section, and its states mapping
\* holds exactly the three remaining symbols.
MissingStateDetection ==
  (HasResult /\ origin.edit.kind = "delete" /\ origin.edit.n = 1
     /\ origin.edit.at \in 5..8) =>
    /\ ~result.is_valid
    /\ \E k \in 1..Len(result.errors) : result.errors[k].msg \in StateErrors
    /\ Has(result.parsed, "states")
    /\ Len(result.parsed.states) = 3
    /\ {result.parsed.states[k].key : k \in 1..3}
         = Symbols \ {expected_order[origin.edit.at - 4]}

MissingStateDetectionWitness ==
  /\ pc = "parsed"
  /\ origin.edit.kind = "delete" /\ origin.edit.n = 1 /\ origin.edit.at = 7
  /\ Has(result.parsed, "states")
  /\ OrderedKeys(result.parsed.states) = <<"@", "&", "~">>

\* C8: for a parse whose states mapping holds all four symbols, the semantic
\* validation reports a state-order error iff the current mode is Gen and the
\* state lines were met in another order than @, &, %, ~; with current mode Int
\* it reports none.
RuleAStateOrder ==
  (pc = "validated" /\ Has(result.parsed, "states")
     /\ {result.parsed.states[k].key : k \in 1..Len(result.parsed.states)} = Symbols) =>
    (HasErrorMsg(semantic, "States out of order for Generative mode")
       <=> /\ Has(result.parsed, "current_mode")
           /\ result.parsed.current_mode.mode = "Gen"
           /\ OrderedKeys(result.parsed.states) # expected_order)

RuleAStateOrderWitness ==
  /\ pc = "validated"
  /\ Has(result.parsed, "current_mode") /\ Has(result.parsed, "states")
  /\ result.parsed.current_mode.mode = "Gen"
  /\ OrderedKeys(result.parsed.states) = <<"@", "%", "&", "~">>
  /\ semantic[1] = Err("States out of order for Generative mode", 0, "",
                       <<"@", "%", "&", "~">>)

\* C9: for each entry of the modes mapping named Generative or Integrative, the
\* semantic validation reports exactly one path error naming it when its path
\* differs from the canonical path of that name, and none when it is equal.
RuleBPathConsistency ==
  (pc = "validated" /\ Has(result.parsed, "modes")) =>
    \A k \in 1..Len(result.parsed.modes) :
      result.parsed.modes[k].key \in {"Generative", "Integrative"} =>
        Cardinality({j \in 1..Len(semantic) :
                       /\ semantic[j].msg = "Incorrect path for"
                       /\ semantic[j].key = result.parsed.modes[k].key})
          = IF result.parsed.modes[k].value.path
                 # expected_paths(result.parsed.modes[k].key)
            THEN 1 ELSE 0

RuleBPathConsistencyWitness ==
  /\ pc = "validated"
  /\ result.is_valid
  /\ Has(result.parsed, "modes")
  /\ OrderedHas(result.parsed.modes, "Generative")
  /\ OrderedGet(result.parsed.modes, "Generative").path = PathOf(<<"@", "%", "&", "~">>)
  /\ \E j \in 1..Len(semantic) :
       semantic[j] = Err("Incorrect path for", 0, "Generative",
                         PathOf(<<"@", "%", "&", "~">>))

\* C10: the parse of a block generated for a mode and a trace id of 0..999 holds
\* that mode in data and in current_mode, that trace id, alignment Y, and the
\* four canonical states in the order @, &, %, ~.
LosslessDeclaredValues ==
  (HasResult /\ Unedited) =>
    /\ result.parsed.data.mode = origin.mode
    /\ result.parsed.current_mode.mode = origin.mode
    /\ result.parsed.data.trace_id = origin.trace_id
    /\ result.parsed.data.alignment = "Y"
    /\ result.parsed.states = CanonicalStates

LosslessDeclaredValuesWitness ==
  /\ pc = "parsed" /\ Unedited
  /\ origin.mode = "Int" /\ origin.trace_id = 7
  /\ Has(result.parsed, "data")
  /\ result.parsed.data.trace_id = 7
  /\ result.parsed.data.mode = "Int"

\* C11: a generated or hand-written 14-line block with one extra non-blank line
\* inserted at any position (before the header, between any two lines, after the
\* footer), or with any one line deleted, parses as not valid.
PositionalBrittleness ==
  (HasResult /\ origin.edit.n = 1
     /\ \/ origin.edit.kind = "delete"
        \/ origin.edit.kind = "insert" /\ origin.edit.line = JunkLine) =>
    ~result.is_valid

\* C12: a parse is not valid whenever non-blank line 0, 1 or 2 is not exactly the
\* header, version or purpose literal, or the last line is not exactly the footer
\* literal; a line that starts with the literal and goes on is such a line.
FixedLiteralLines ==
  (HasResult /\ Len(NonBlankLines(text)) >= 3) =>
    \A lines \in {NonBlankLines(text)} :
      (\/ At(lines, 0) # <<HEADER>>
       \/ At(lines, 1) # <<VERSION>>
       \/ At(lines, 2) # <<PURPOSE>>
       \/ lines[Len(lines)] # <<FOOTER>>) => ~result.is_valid

ValidBlock == pc = "validated" /\ result.is_valid /\ semantic = <<>>

\* C13: in every parse that is valid and has no semantic errors, with current mode
\* Gen or Int, the states mapping has exactly the four keys @, &, %, ~, each bound
\* to its canonical name and policy.
StatesOfValidBlock ==
  ValidBlock =>
    /\ Has(result.parsed, "states")
    /\ Len(result.parsed.states) = 4
    /\ {result.parsed.states[k].key : k \in 1..Len(result.parsed.states)} = Symbols
    /\ \A k \in 1..Len(result.parsed.states) :
         result.parsed.states[k].value
           = [name |-> expected_states(result.parsed.states[k].key),
              policy |-> expected_policies(result.parsed.states[k].key)]

\* C14: in every parse that is valid and has no semantic errors, the modes mapping
\* has exactly the two keys Generative and Integrative, each with its canonical
\* path.
ModesOfValidBlock ==
  ValidBlock =>
    /\ Has(result.parsed, "modes")
    /\ {result.parsed.modes[k].key : k \in 1..Len(result.parsed.modes)}
         = {"Generative", "Integrative"}
    /\ \A k \in 1..Len(result.parsed.modes) :
         result.parsed.modes[k].value.path = expected_paths(result.parsed.modes[k].key)

\* C15: in every parse that is valid and has no semantic errors, current_mode.mode
\* is Gen or Int.
CurrentModeOfValidBlock ==
  ValidBlock =>
    /\ Has(result.parsed, "current_mode")
    /\ result.parsed.current_mode.mode \in {"Gen", "Int"}

ValueErrors == {"Incorrect state name for", "Incorrect policy for"}

\* The state positions (0..3) whose line has the state shape and a name or a
\* policy other than the fixed one of its symbol.
WrongValueStateLines(lines) ==
  {i \in 0..3 :
     /\ states_section_start + 1 + i < Len(lines)
     /\ MatchState(At(lines, states_section_start + 1 + i)).matched
     /\ \E g \in {MatchState(At(lines, states_section_start + 1 + i)).groups} :
          g[2] # expected_states(g[1]) \/ g[3] # expected_policies(g[1])}

\* C16: each state line at a state position that has the state shape and a wrong
\* name or policy adds exactly one error (for the name if it is wrong, else for the
\* policy), the parse is not valid, and states holds the line's name and policy
\* under its symbol.
PerStateValueCheck ==
  (HasResult /\ Has(result.parsed, "states")) =>
    \A lines \in {NonBlankLines(text)} :
      /\ Cardinality({k \in 1..Len(result.errors) : result.errors[k].msg \in ValueErrors})
           = Cardinality(WrongValueStateLines(lines))
      /\ \A i \in WrongValueStateLines(lines) :
           \E g \in {MatchState(At(lines, states_section_start + 1 + i)).groups} :
             /\ ~result.is_valid
             /\ Cardinality({k \in 1..Len(result.errors) :
                               /\ result.errors[k].msg \in ValueErrors
                               /\ result.errors[k].key = g[1]}) = 1
             /\ \E k \in 1..Len(result.errors) :
                  result.errors[k] =
                    IF g[2] # expected_states(g[1])
                    THEN Err("Incorrect state name for", 0, g[1], g[2])
                    ELSE Err("Incorrect policy for", 0, g[1], g[3])
             /\ OrderedHas(result.parsed.states, g[1])
             /\ OrderedGet(result.parsed.states, g[1]) = [name |-> g[2], policy |-> g[3]]

PerStateValueCheckWitness ==
  /\ pc = "parsed"
  /\ origin.edit.kind = "replace" /\ origin.edit.at = 6
  /\ result.errors = <<Err("Incorrect state name for", 0, "&", <<"Foo">>)>>
  /\ Has(result.parsed, "states")
  /\ OrderedGet(result.parsed.states, "&") = [name |-> <<"Foo">>, policy |-> <<"Foo">>]

\* The data-line shape with any one token as alignment: the fixed words, a
\* timestamp of digits and separators, an alphabetic mode token, digits as ID.
DataShape(line) ==
  /\ Len(line) >= 50
  /\ line = DataLine(SubSeq(line, 7, 22), line[29], line[42],
                     SubSeq(line, 49, Len(line) - 1))
  /\ TimestampShape(SubSeq(line, 7, 22))
  /\ line[29] \in Alpha
  /\ \A k \in 49..(Len(line) - 1) : line[k] \in DigitSet

DataLineReached ==
  ~\E k \in 1..Len(result.errors) : result.errors[k].msg \in HeaderErrors

\* C17: a line at the data position that has the data-line shape makes the parse
\* not valid, with an error of the data line, when its mode token is not Gen or
\* Int, when its timestamp is not a real date and time of day (month 13, day 30 of
\* February, hour 25, minute 60, year 0), or when its alignment is not Y or N.
DataTypedConstraints ==
  (HasResult /\ data_idx < Len(NonBlankLines(text))) =>
    \A line \in {At(NonBlankLines(text), data_idx)} :
      DataShape(line) =>
        /\ line[29] \notin {"Gen", "Int"} =>
             /\ ~result.is_valid
             /\ DataLineReached =>
                  \E k \in 1..Len(result.errors) :
                    result.errors[k] = Err("Invalid mode", 0, line[29], <<>>)
        /\ ~strptime_ok(SubSeq(line, 7, 22)) =>
             /\ ~result.is_valid
             /\ DataLineReached =>
                  \E k \in 1..Len(result.errors) :
                    result.errors[k]
                      = Err("Invalid timestamp format", 0, "", SubSeq(line, 7, 22))
        /\ line[42] \notin {"Y", "N"} =>
             /\ ~result.is_valid
             /\ DataLineReached => HasErrorMsg(result.errors, "Invalid data format")

DataTypedConstraintsWitness ==
  /\ pc = "parsed"
  /\ origin.edit.kind = "replace" /\ origin.edit.at = 13
  /\ Len(result.errors) = 1
  /\ result.errors[1].msg = "Invalid timestamp format"
  /\ SubSeq(result.errors[1].arg, 6, 7) = <<"1", "3">>
  /\ Has(result.parsed, "data")

\* The ID digits of a data line built as the generator builds it.
IdDigits(line) == SubSeq(line, 49, Len(line) - 1)

\* A generator's data line for the block's own mode and time, with any digits as ID.
CanonicalDataLineWithId(line) ==
  /\ Len(line) >= 50
  /\ \A k \in 49..(Len(line) - 1) : line[k] \in DigitSet
  /\ line = DataLine(strftime(origin.now), origin.mode, "Y", IdDigits(line))

\* C18: the data line of a generated block carries the trace id (0, 1, 42, 999) as
\* exactly three digits, zero-padded; and a block whose data line carries an ID of
\* one, two, three, four or five digits, all else as generated or as written by
\* hand, parses without error, data.trace_id being the number those digits denote
\* (its decimal digits, padded with zeros to the ID's width, are the ID).
TraceIdWidth ==
  /\ (pc = "text" /\ Unedited) =>
       \A line \in {SplitLines(text)[13]} :
         /\ CanonicalDataLineWithId(line)
         /\ Len(IdDigits(line)) = 3
         /\ IdDigits(line) = ZeroPad(DecimalDigits(origin.trace_id), 3)
  /\ (HasResult /\ origin.edit.kind = "replace" /\ origin.edit.at = 13
        /\ CanonicalDataLineWithId(origin.edit.line)) =>
       /\ result.is_valid
       /\ result.errors = <<>>
       /\ result.parsed.data.trace_id \in Nat
       /\ ZeroPad(DecimalDigits(result.parsed.data.trace_id),
                  Len(IdDigits(origin.edit.line))) = IdDigits(origin.edit.line)

TraceIdWidthWitness ==
  /\ pc = "parsed"
  /\ origin.by = "generator"
  /\ origin.edit.kind = "replace" /\ origin.edit.at = 13
  /\ CanonicalDataLineWithId(origin.edit.line)
  /\ IdDigits(origin.edit.line) = <<"0", "0", "4", "2">>
  /\ result.is_valid
  /\ result.parsed.data.trace_id = 42

StateLineFailed ==
  \E k \in 1..Len(result.errors) :
    result.errors[k].msg \in {"Invalid state format at line", "Missing state line"}

\* C19: the semantic validation reports no state-order error when states or
\* current_mode is absent from the parse or when states holds fewer than four
\* entries because a state line failed to parse (current mode Gen with three
\* extracted states included), and no path error when modes is absent.
NoCompoundingErrors ==
  pc = "validated" =>
    /\ (\/ ~Has(result.parsed, "states")
        \/ ~Has(result.parsed, "current_mode")
        \/ Len(result.parsed.states) < 4 /\ StateLineFailed) =>
         ~HasErrorMsg(semantic, "States out of order for Generative mode")
    /\ ~Has(result.parsed, "modes") => ~HasErrorMsg(semantic, "Incorrect path for")

\* The regions of a stream: the maximal runs of lines that are not empty after
\* trimming, as the sizes of the runs in the order of the stream.
IsBlank(line) == Strip(line) = <<>>

RegionStarts(lines) ==
  {i \in 1..Len(lines) : ~IsBlank(lines[i]) /\ (i = 1 \/ IsBlank(lines[i - 1]))}

RegionEnd(lines, i) ==
  CHOOSE j \in i..Len(lines) :
    /\ \A k \in i..j : ~IsBlank(lines[k])
    /\ j = Len(lines) \/ IsBlank(lines[j + 1])

RegionSizes(lines) ==
  [n \in 1..Cardinality(RegionStarts(lines)) |->
     LET i == CHOOSE i \in RegionStarts(lines) :
                Cardinality({j \in RegionStarts(lines) : j < i}) = n - 1
     IN RegionEnd(lines, i) - i + 1]

FileWasRead ==
  ~(pc = "from_file" /\ Len(returned) = 1
      /\ \E k \in 1..Len(returned[1].errors) :
           returned[1].errors[k].msg \in {"File not found", "Error reading file"})

\* C20: for a stream whose regions (runs of lines between lines that are empty
\* after trimming) are all blocks of 14 lines, validate_from_file on the readable
\* file and validate_batch_from_stdin return one result per region, in order, each
\* counting the 14 lines of its region; so also for two blocks with a line of
\* blanks between them.
BlankLineSegmentation ==
  (pc \in {"from_file", "from_stdin"} /\ FileWasRead) =>
    \A sizes \in {RegionSizes(SplitLines(text))} :
      (\A n \in 1..Len(sizes) : sizes[n] = NumLines) =>
        /\ Len(returned) = Len(sizes)
        /\ \A n \in 1..Len(sizes) : returned[n].line_count = sizes[n]

\* The parts of a stream between empty lines (lines of no character at all): for
\* each part, the number of its lines that are not blank after trimming, in the
\* order of the stream.
PartStarts(lines) ==
  {i \in 1..Len(lines) : lines[i] # <<>> /\ (i = 1 \/ lines[i - 1] = <<>>)}

PartEnd(lines, i) ==
  CHOOSE j \in i..Len(lines) :
    /\ \A k \in i..j : lines[k] # <<>>
    /\ j = Len(lines) \/ lines[j + 1] = <<>>

NonBlankCount(lines, i, j) == Cardinality({k \in i..j : ~IsBlank(lines[k])})

\* The parts with at least MinBlockLines non-blank lines, by their first line.
FullParts(lines) ==
  {i \in PartStarts(lines) : NonBlankCount(lines, i, PartEnd(lines, i)) >= MinBlockLines}

\* C21: when some part of the stream between empty lines has at least 10 lines
\* that are not blank after trimming, validate_from_file (file read) and
\* validate_batch_from_stdin return a result for exactly those parts: a part of
\* nine such lines and one line of blanks gets none.
ThresholdFilter ==
  (pc \in {"from_file", "from_stdin"} /\ FileWasRead) =>
    \A lines \in {SplitLines(text)} :
      FullParts(lines) # {} => Len(returned) = Cardinality(FullParts(lines))

\* The number of lines of lines[i..j] from its first to its last non-blank line.
TrimmedLineCount(lines, i, j) ==
  IF \A k \in i..j : IsBlank(lines[k]) THEN 0
  ELSE (CHOOSE b \in i..j : ~IsBlank(lines[b]) /\ \A k \in (b + 1)..j : IsBlank(lines[k]))
       - (CHOOSE a \in i..j : ~IsBlank(lines[a]) /\ \A k \in i..(a - 1) : IsBlank(lines[k]))
       + 1

NoPartOfBlockSize(lines) ==
  \A i \in PartStarts(lines) :
    TrimmedLineCount(lines, i, PartEnd(lines, i)) < MinBlockLines

StdinFallback ==
  pc = "from_stdin" =>
    \A lines \in {SplitLines(text)} :
      NoPartOfBlockSize(lines) =>
        /\ Len(returned) = 1
        /\ returned[1].line_count = TrimmedLineCount(lines, 1, Len(lines))
        /\ Len(results) >= 1
        /\ results[Len(results)] = returned[1]

\* The parts between empty lines that have 10 lines from their first to their last
\* non-blank line, and the rank of a part among all parts, counted from 1.
BlockSizedParts(lines) ==
  {i \in PartStarts(lines) : TrimmedLineCount(lines, i, PartEnd(lines, i)) >= MinBlockLines}

PartRank(lines, i) == Cardinality({j \in PartStarts(lines) : j <= i})

NthBlockSizedPart(lines, n) ==
  CHOOSE i \in BlockSizedParts(lines) :
    Cardinality({j \in BlockSizedParts(lines) : j <= i}) = n

HasOrdinal(rec) == "line_count" \in DOMAIN rec /\ Len(rec.source) > 2

\* The position in the file list of the file a record of validate_from_file is for.
FileIndex(filepaths, rec) ==
  CHOOSE k \in 1..Len(filepaths) :
    IF "line_count" \in DOMAIN rec THEN rec.source[2] = filepaths[k]
    ELSE rec.source = filepaths[k]

\* C24: the results of validate_from_file and validate_batch_from_stdin are those
\* of the block-sized parts of the input in their order, each tagged with the
\* source name and the rank of its part among the parts of the input (counted
\* from 1, whatever the number of empty lines between two parts); and the results
\* of validate_batch_from_files follow the order of the file list.
OrderingAndAttribution ==
  /\ (pc \in {"from_file", "from_stdin"} /\ FileWasRead) =>
       \A lines \in {SplitLines(text)} :
         BlockSizedParts(lines) # {} =>
           /\ Len(returned) = Cardinality(BlockSizedParts(lines))
           /\ \A n \in 1..Len(returned) :
                /\ returned[n].line_count
                     = TrimmedLineCount(lines, NthBlockSizedPart(lines, n),
                                        PartEnd(lines, NthBlockSizedPart(lines, n)))
                /\ returned[n].source
                     = (IF pc = "from_file" THEN <<"file:", "traces.txt">> ELSE <<"stdin">>)
                       \o <<":block_", PartRank(lines, NthBlockSizedPart(lines, n))>>
  /\ pc = "from_files" =>
       \A m, n \in 1..Len(returned) :
         m < n => FileIndex(call.args, returned[m]) <= FileIndex(call.args, returned[n])

\* The text of the part of the stream that starts at line i, taken alone.
PartText(lines, i) == Strip(JoinLines(SubSeq(lines, i, PartEnd(lines, i))))

SameOutcome(a, b) ==
  /\ a.is_valid = b.is_valid
  /\ a.errors = b.errors
  /\ a.parsed_data = b.parsed_data

IsFileError(rec, filepath) ==
  /\ "line_count" \notin DOMAIN rec
  /\ rec.source = filepath
  /\ ~rec.is_valid
  /\ Len(rec.errors) = 1
  /\ rec.errors[1].msg \in {"File not found", "Error reading file"}

IsRecordOf(rec, filepath) ==
  IF "line_count" \in DOMAIN rec THEN rec.source[2] = filepath ELSE rec.source = filepath

\* C26: validate_from_file on the missing and on the undecodable file returns
\* exactly one record, invalid and with exactly one error, and does not raise;
\* validate_batch_from_files returns, for each file of its list and in the order
\* of the list, that one record for a file that cannot be read and at least one
\* record for a file that can, whatever files precede it.
IOFailureContainment ==
  /\ call.op \in {"validate_from_file", "validate_batch_from_files"} => pc # "raised"
  /\ (pc = "from_file" /\ FileOutcome(call.args[1]) # "read") =>
       /\ Len(returned) = 1
       /\ IsFileError(returned[1], call.args[1])
  /\ pc = "from_files" =>
       /\ \A k \in 1..Len(call.args) :
            IF FileOutcome(call.args[k]) # "read"
            THEN /\ Cardinality({n \in 1..Len(returned) :
                                   IsRecordOf(returned[n], call.args[k])}) = 1
                 /\ \A n \in 1..Len(returned) :
                      IsRecordOf(returned[n], call.args[k]) =>
                        IsFileError(returned[n], call.args[k])
            ELSE \E n \in 1..Len(returned) :
                   /\ IsRecordOf(returned[n], call.args[k])
                   /\ "line_count" \in DOMAIN returned[n]
       /\ \A m, n \in 1..Len(returned) :
            m < n => FileIndex(call.args, returned[m]) <= FileIndex(call.args, returned[n])

\* A missing file first in the list, and the records of the file after it.
IOFailureContainmentWitness ==
  /\ pc = "from_files"
  /\ call.args = <<"missing.txt", "traces.txt">>
  /\ Len(returned) >= 2
  /\ IsFileError(returned[1], "missing.txt")
  /\ returned[1].errors[1].msg = "File not found"
  /\ \A n \in 2..Len(returned) :
       "line_count" \in DOMAIN returned[n] /\ returned[n].source[2] = "traces.txt"

\* C27: every record of results carries source, is_valid, errors, warnings and
\* line_count, and generate_report, in either format, renders results without
\* raising.
RecordShape ==
  /\ \A k \in 1..Len(results) :
       {"source", "is_valid", "errors", "warnings", "line_count"} \subseteq DOMAIN results[k]
  /\ call.op = "generate_report" => pc = "report"

BatchOps == {"validate_batch_from_files", "validate_batch_from_stdin"}

\* C28: a call of validate_batch_from_files or validate_batch_from_stdin that
\* returns appends the list it returns to results; every other step
\* (validate_from_file, validate_from_string, validate_trace_block,
\* generate_report, a batch call that raises) leaves results as it is; so the
\* records held stay, in their order, at the front of results.
AppendOnlyAggregation ==
  [][/\ IF call'.n = call.n + 1 /\ call'.op \in BatchOps /\ pc' # "raised"
        THEN results' = results \o returned'
        ELSE results' = results
     /\ Len(results') >= Len(results)
     /\ SubSeq(results', 1, Len(results)) = results]_vars

\* The second batch call of a session: results holds the records of the first
\* (a file list with the missing file) and, after them, those just returned.
AppendOnlyAggregationWitness ==
  /\ call.n = 2
  /\ pc = "from_stdin"
  /\ Len(returned) = 2
  /\ Len(results) > Len(returned)
  /\ "line_count" \notin DOMAIN results[1]
  /\ SubSeq(results, Len(results) - 1, Len(results)) = returned

ExampleValidatorTotal ==
  /\ pc # "raised"
  /\ (pc = "checked" /\ origin.by = "example") =>
       result.is_valid /\ result.errors = <<>>
  /\ (pc = "checked" /\ Len(SplitLines(text)) < NumLines) =>
       ~result.is_valid /\ Len(result.errors) >= 1

====
